---- MODULE Spec2Model ----
(***************************************************************************)
(* Stage engine of the trading-agents pipeline.                            *)
(*                                                                         *)
(*   - the shared run state (tradingagents/langgraph/state.py),            *)
(*   - the consolidation and decision synthesis functions                  *)
(*     (tradingagents/langgraph/builder_consolidate.py),                   *)
(*   - the graph wired by build_langgraph_pipeline and executed by         *)
(*     run_langgraph_pipeline (tradingagents/langgraph/runner_langgraph.py)*)
(*                                                                         *)
(* A state key is a pair <<kind, name>>: <<"m", t>> is the key "m__t",      *)
(* <<"a", p>> is the key "a__p" and <<"c", f>> is the plain field f.        *)
(* A Result (a Python dict) is a function from field names to values; the  *)
(* empty dict is EmptyMap.  Confidence is an integer number of hundredths. *)
(***************************************************************************)
EXTENDS Integers, Sequences, FiniteSets, TLC

VARIABLES
    pc,            \* "run" | "done" | "aborted" (pipeline), "in" | "parsed" | "out" (function harnesses),
                   \* "build" | "run" | "done" (SimpleGraph)
    triggered,     \* nodes of the current superstep
    status,        \* node -> "idle" | "running" | "done" within the superstep
    writes,        \* node -> the update returned by the node in this superstep
    runs,          \* node -> number of completed executions in this run
    started,       \* nodes that have begun executing at least once
    committed,     \* nodes whose update has been merged into the state
    ticker,        \* GraphState.ticker
    data_sources,  \* GraphState.data_sources
    analyses,      \* GraphState.analyses
    decision,      \* GraphState.decision
    token_usage,   \* GraphState.token_usage
    notes,         \* GraphState.notes
    slots,         \* transient keys m__* / a__* currently held by the state
    keyOrder,      \* iteration order of the transient keys in state.items()
    produced,      \* usage summed over every persona Result returned so far
    applications,  \* number of times the function under study has been applied
    node_name,     \* Node.name of every Node object created
    node_next,     \* Node.next of every Node object created
    graph_nodes,   \* SimpleGraph.nodes
    entrypoints,   \* SimpleGraph.entrypoints
    frontier,      \* SimpleGraph.run: frontier
    seen,          \* SimpleGraph.run: seen
    executed,      \* Node objects whose func has been called, in order
    text,          \* the reasoning-service response handed to _parse_response
    analysis,      \* the Result under construction in BasePersona._analyze
    as_of_date,    \* GraphState.as_of_date
    time_horizon,  \* GraphState.time_horizon
    api_key,       \* whether the credential of the service called is configured
    adapter,       \* the mapper whose evidence fetch is under study
    fetched,       \* what each completed vendor request of the fetch gave
    response,      \* the vendor's latest response
    depth,         \* number of nested _call invocations
    outcome,       \* "none" | "returned" | "raised": how the call under study ended
    result,        \* what the call under study returned
    cache,         \* the cache files: key -> [timestamp, data]
    cache_enabled, \* DEFAULT_CONFIG["cache"]["enabled"]
    cache_key,     \* (adapter_name, params) of the latest cache call
    put_data,      \* key -> the data given to the save that wrote the key's file
    clock,         \* time.time()
    user_prompt,   \* length of the prompt given to LLMService.complete
    llm_usage,     \* the usage dict returned by LLMService.complete
    jobs,          \* FastMCP._jobs: job id -> metadata
    tasks,         \* the job ids whose _run_job task has not run yet
    job_query      \* the id given to the latest get_job_status (0: none yet)

vars == <<pc, triggered, status, writes, runs, started, committed, ticker,
          data_sources, analyses, decision, token_usage, notes, slots,
          keyOrder, produced, applications, node_name, node_next, graph_nodes,
          entrypoints, frontier, seen, executed, text, analysis, as_of_date,
          time_horizon, api_key, adapter, fetched, response, depth, outcome, result,
          cache, cache_enabled, cache_key, put_data, clock, user_prompt, llm_usage,
          jobs, tasks, job_query>>

SimpleGraphVars == <<node_name, node_next, graph_nodes, entrypoints, frontier, seen, executed>>

PersonaVars == <<text, analysis>>

JobVars == <<jobs, tasks, job_query>>

AdapterVars ==
    <<api_key, adapter, fetched, response, depth, outcome, result, cache,
      cache_enabled, cache_key, put_data, clock, user_prompt, llm_usage>>

(***************************************************************************)
(* Python dict helpers                                                     *)
(***************************************************************************)
EmptyMap == [k \in {} |-> k]

Get(m, k, default) == IF k \in DOMAIN m THEN m[k] ELSE default

Put(m, k, v) == [x \in (DOMAIN m) \cup {k} |-> IF x = k THEN v ELSE m[x]]

\* dict.update: keys of u replace keys of m
Update(m, u) == [x \in (DOMAIN m) \cup (DOMAIN u) |-> IF x \in DOMAIN u THEN u[x] ELSE m[x]]

\* truthiness of a dict
NonEmpty(m) == DOMAIN m # {}

\* fault: a present but empty text counts as a value
TruthyTextIfPresent(m, f) == f \in DOMAIN m

\* truthiness of source.get(field) for a text field: present and not ""
TruthyText(m, f) == f \in DOMAIN m /\ m[f] # ""

MKey(t) == <<"m", t>>
AKey(p) == <<"a", p>>
CKey(f) == <<"c", f>>

\* k.startswith("m__") / k.startswith("a__") and k.split("__", 1)[1]
IsMapperKey(k) == k[1] = "m"
IsPersonaKey(k) == k[1] = "a"

\* fault: the part before the separator is taken as the name
SuffixTakesPrefix(k) == k[1]

\* k.split("__", 1)[1]
Suffix(k) == k[2]

ZeroUsage == [prompt |-> 0, completion |-> 0]

(***************************************************************************)
(* consolidate_state                                                       *)
(***************************************************************************)
\* fault: the usage of the Result replaces the accumulator instead of adding to it
ConsolidateItemAssignsUsage(acc, k, v) ==
    IF IsMapperKey(k)
    THEN [acc EXCEPT !.data_sources = Put(@, Suffix(k), v)]
    ELSE IF IsPersonaKey(k)
    THEN LET usage == Get(v, "usage", EmptyMap)
         IN  IF NonEmpty(usage)
             THEN [acc EXCEPT !.analyses = Put(@, Suffix(k), v),
                              !.prompt = Get(usage, "prompt_tokens", 0),
                              !.completion = Get(usage, "completion_tokens", 0)]
             ELSE [acc EXCEPT !.analyses = Put(@, Suffix(k), v)]
    ELSE acc

\* one iteration of "for k, v in state.items()"
ConsolidateItem(acc, k, v) ==
    IF IsMapperKey(k)
    THEN [acc EXCEPT !.data_sources = Put(@, Suffix(k), v)]
    ELSE IF IsPersonaKey(k)
    THEN LET usage == Get(v, "usage", EmptyMap)
         IN  IF NonEmpty(usage)
             THEN [acc EXCEPT !.analyses = Put(@, Suffix(k), v),
                              !.prompt = @ + Get(usage, "prompt_tokens", 0),
                              !.completion = @ + Get(usage, "completion_tokens", 0)]
             ELSE [acc EXCEPT !.analyses = Put(@, Suffix(k), v)]
    ELSE acc

RECURSIVE ConsolidateLoop(_, _, _)
ConsolidateLoop(acc, order, sl) ==
    IF order = << >> THEN acc
    ELSE ConsolidateLoop(ConsolidateItem(acc, Head(order), sl[Head(order)]), Tail(order), sl)

\* the dict returned by consolidate_state for a state whose transient keys
\* are sl, iterated in the given order, and whose token_usage is tu
consolidate_state(sl, order, tu) ==
    LET acc == ConsolidateLoop([data_sources |-> EmptyMap, analyses |-> EmptyMap,
                                prompt |-> tu.prompt, completion |-> tu.completion],
                               order, sl)
        r0 == Put(EmptyMap, CKey("token_usage"),
                  [prompt |-> acc.prompt, completion |-> acc.completion])
        r1 == IF NonEmpty(acc.data_sources) THEN Put(r0, CKey("data_sources"), acc.data_sources) ELSE r0
        r2 == IF NonEmpty(acc.analyses) THEN Put(r1, CKey("analyses"), acc.analyses) ELSE r1
    IN  r2

(***************************************************************************)
(* finalize_decision                                                       *)
(***************************************************************************)
RawFallbackKeys ==
    <<"TechnicalAnalyst", "ValuationAnalyst", "EventAnalyst", "MacroAnalyst", "FlowAnalyst",
      "BullResearcher", "BearResearcher", "ResearchReferee", "RiskManager", "Trader", "RiskJudge">>

\* "Fallback to raw persona payloads when consolidate_state has not run yet"
RECURSIVE RawFallback(_, _, _)
RawFallback(an, keys, sl) ==
    IF keys = << >> THEN an
    ELSE LET key == Head(keys)
             raw == AKey(key)
             an1 == IF key \notin DOMAIN an /\ raw \in DOMAIN sl /\ NonEmpty(sl[raw])
                    THEN Put(an, key, sl[raw])
                    ELSE an
         IN  RawFallback(an1, Tail(keys), sl)

\* analyses.get(name) or {}
GetOrEmpty(an, name) == IF name \in DOMAIN an /\ NonEmpty(an[name]) THEN an[name] ELSE EmptyMap

\* fault: the execution plan is preferred to the oversight Result
DecisionSourceTraderFirst(risk_judge, trader, referee) ==
    IF NonEmpty(trader) THEN trader
    ELSE IF NonEmpty(risk_judge) THEN risk_judge
    ELSE referee

DecisionSource(risk_judge, trader, referee) ==
    IF NonEmpty(risk_judge) THEN risk_judge
    ELSE IF NonEmpty(trader) THEN trader
    ELSE referee

SourcePersona(risk_judge, trader) ==
    IF NonEmpty(risk_judge) THEN "RiskJudge"
    ELSE IF NonEmpty(trader) THEN "Trader"
    ELSE "ResearchReferee"

\* the value stored under "decision" by finalize_decision
finalize_decision(tk, an0, sl) ==
    LET an == RawFallback(an0, RawFallbackKeys, sl)
        risk_judge == GetOrEmpty(an, "RiskJudge")
        trader == GetOrEmpty(an, "Trader")
        referee == GetOrEmpty(an, "ResearchReferee")
        source == DecisionSource(risk_judge, trader, referee)
    IN  [ticker |-> tk,
         stance |-> Get(source, "stance", "neutral"),
         decision |-> IF TruthyText(source, "final_action") THEN source["final_action"]
                      ELSE Get(source, "decision", "hold"),
         rationale |-> IF TruthyText(source, "rationale") THEN source["rationale"]
                       ELSE Get(source, "summary", ""),
         confidence |-> Get(source, "confidence", Get(referee, "confidence", 0)),
         source_persona |-> SourcePersona(risk_judge, trader)]

(***************************************************************************)
(* The graph wired by build_langgraph_pipeline                             *)
(***************************************************************************)
MapperNodes == {"MarketMapper", "FundamentalsMapper", "NewsMapper", "PolicyMapper", "MacroMapper"}

\* BaseMapper.type of each mapper class
MapperType(n) ==
    CASE n = "MarketMapper" -> "market"
      [] n = "FundamentalsMapper" -> "fundamentals"
      [] n = "NewsMapper" -> "news"
      [] n = "PolicyMapper" -> "policy"
      [] n = "MacroMapper" -> "macro"

AnalystNodes == {"technical", "valuation", "event", "macro", "flow"}
DebateNodes == {"BullResearcher", "BearResearcher"}
GovernanceNodes == {"RiskManager", "Trader", "RiskJudge"}
PersonaNodes == AnalystNodes \cup DebateNodes \cup {"ResearchReferee"} \cup GovernanceNodes

\* cfg.name of the persona that runs at each node; the legacy role keys
\* (valuation, event, RiskManager, Trader, RiskJudge) stand for the personas
\* the factories register for those roles
PersonaName(n) ==
    CASE n = "technical" -> "TechnicalAnalyst"
      [] n = "valuation" -> "FundamentalAnalyst"
      [] n = "event" -> "SentimentAnalyst"
      [] n = "macro" -> "MacroAnalyst"
      [] n = "flow" -> "FlowAnalyst"
      [] n = "BullResearcher" -> "BullResearcher"
      [] n = "BearResearcher" -> "BearResearcher"
      [] n = "ResearchReferee" -> "ResearchReferee"
      [] n = "RiskManager" -> "RiskAssessment"
      [] n = "Trader" -> "ExecutionPlan"
      [] n = "RiskJudge" -> "FinalOversight"

Stages ==
    << [label |-> "Evidence", nodes |-> MapperNodes],
       [label |-> "Analyst", nodes |-> AnalystNodes],
       [label |-> "ResearchDebate", nodes |-> DebateNodes],
       [label |-> "Consensus", nodes |-> {"ResearchReferee"}],
       [label |-> "Risk", nodes |-> {"RiskManager"}],
       [label |-> "Trader", nodes |-> {"Trader"}],
       [label |-> "Oversight", nodes |-> {"RiskJudge"}] >>

StageIds == 1..Len(Stages)

\* hub_name = f"{stage_label}Hub"
HubName(label) ==
    CASE label = "Evidence" -> "EvidenceHub"
      [] label = "Analyst" -> "AnalystHub"
      [] label = "ResearchDebate" -> "ResearchDebateHub"
      [] label = "Consensus" -> "ConsensusHub"
      [] label = "Risk" -> "RiskHub"
      [] label = "Trader" -> "TraderHub"
      [] label = "Oversight" -> "OversightHub"

StageHub(i) == HubName(Stages[i].label)
HubNodes == {StageHub(i) : i \in StageIds}
UnitNodes == MapperNodes \cup PersonaNodes
ConsolidationNodes == HubNodes \cup {"Consolidate"}
Nodes == {"Seed"} \cup UnitNodes \cup HubNodes \cup {"FinalizeDecision", "Consolidate"}

\* fault: the analyst stage is attached to the seed instead of the evidence hub
UpstreamsAnalystsOnSeed(i) == IF i <= 2 THEN {"Seed"} ELSE {HubName(Stages[i - 1].label)}

\* upstreams argument of the i-th _fanout_stage call
Upstreams(i) == IF i = 1 THEN {"Seed"} ELSE {StageHub(i - 1)}

\* fault: the hub is attached to the upstreams as well as to the stage's nodes
fanout_stage_HubOnUpstreams(upstreams, stage_label, nodes) ==
    {<<u, n>> : u \in upstreams, n \in nodes}
    \cup {<<n, HubName(stage_label)>> : n \in nodes}
    \cup {<<u, HubName(stage_label)>> : u \in upstreams}

\* edges added by one _fanout_stage call
fanout_stage(upstreams, stage_label, nodes) ==
    {<<u, n>> : u \in upstreams, n \in nodes} \cup {<<n, HubName(stage_label)>> : n \in nodes}

Edges ==
    UNION {fanout_stage(Upstreams(i), Stages[i].label, Stages[i].nodes) : i \in StageIds}
    \cup {<<StageHub(Len(Stages)), "FinalizeDecision">>, <<"FinalizeDecision", "Consolidate">>}

Successors(ns) == {m \in Nodes : \E n \in ns : <<n, m>> \in Edges}

(***************************************************************************)
(* GraphState: the keys the state keeps                                    *)
(***************************************************************************)
\* declared transient fields, in declaration order
SchemaOrder ==
    << MKey("market"), MKey("fundamentals"), MKey("news"), MKey("macro"),
       AKey("TechnicalAnalyst"), AKey("FundamentalAnalyst"), AKey("SentimentAnalyst"),
       AKey("MacroAnalyst"), AKey("FlowAnalyst"), AKey("Synthesis"),
       AKey("RiskAssessment"), AKey("ExecutionPlan"), AKey("FinalOversight") >>

DeclaredSlots == {SchemaOrder[i] : i \in 1..Len(SchemaOrder)}

CanonicalKeys == {CKey("data_sources"), CKey("analyses"), CKey("decision"), CKey("token_usage")}

\* the inputs of a run
InputKeys == {CKey("ticker"), CKey("as_of_date"), CKey("time_horizon")}

\* keys of the compiled graph's state: an update to any other key is dropped
Channels == DeclaredSlots \cup CanonicalKeys \cup {CKey("notes")} \cup InputKeys

\* Field(default_factory=list) / Field(default_factory=dict)
SlotDefault(k) == IF IsMapperKey(k) THEN << >> ELSE EmptyMap

(***************************************************************************)
(* What the units return                                                   *)
(***************************************************************************)
Tickers == {"AAPL", "MSFT"}

\* largest prompt token count a reasoning-service call reports
MaxUsage == 1

\* usage dicts returned by LLMService.complete
UsageChoices ==
    {[prompt_tokens |-> 0, completion_tokens |-> 0],
     [prompt_tokens |-> MaxUsage, completion_tokens |-> MaxUsage + 1]}

\* sequences of Evidence Records (by id) a mapper's load() may return
EvidenceChoices(n) ==
    CASE n = "MarketMapper" -> {<< >>, <<"e1", "e2">>}
      [] n = "FundamentalsMapper" -> {<< >>, <<"e3">>}
      [] n = "NewsMapper" -> {<<"n1">>}
      [] n = "PolicyMapper" -> {<<"p1">>}
      [] n = "MacroMapper" -> {<< >>}

\* fault: the market mapper also stores its records in data_sources itself
MapperOutputWritesDataSources(n, ev) ==
    IF n = "MarketMapper"
    THEN Put(Put(EmptyMap, MKey(MapperType(n)), ev),
             CKey("data_sources"), Put(data_sources, MapperType(n), ev))
    ELSE Put(EmptyMap, MKey(MapperType(n)), ev)

\* BaseMapper.__call__: {f"m__{self.type}": [...]}
MapperOutput(n, ev) == Put(EmptyMap, MKey(MapperType(n)), ev)

\* BasePersona._analyze: parsed response, persona name, usage
PersonaResult(name, usage) ==
    [persona |-> name, stance |-> "neutral", summary |-> "text", usage |-> usage]

\* fault: the persona also returns the notes field with a line of its own
PersonaOutputAppendsNote(n, usage) ==
    Put(Put(EmptyMap, AKey(PersonaName(n)), PersonaResult(PersonaName(n), usage)),
        CKey("notes"), Append(notes, PersonaName(n)))

\* BasePersona.__call__: {f"a__{self.name}": analysis}
PersonaOutput(n, usage) == Put(EmptyMap, AKey(PersonaName(n)), PersonaResult(PersonaName(n), usage))

(***************************************************************************)
(* Execution of the compiled graph by run_langgraph_pipeline               *)
(***************************************************************************)
\* no SimpleGraph has been constructed
NoSimpleGraph ==
    /\ node_name = << >>
    /\ node_next = << >>
    /\ graph_nodes = EmptyMap
    /\ entrypoints = << >>
    /\ frontier = << >>
    /\ seen = {}
    /\ executed = << >>

\* FastMCP holds no job
NoJobs ==
    /\ jobs = EmptyMap
    /\ tasks = {}
    /\ job_query = 0

\* no persona call is in progress
NoPersonaCall ==
    /\ text = << >>
    /\ analysis = EmptyMap

\* the cache directory is empty and no cache call has been made
NoCache ==
    /\ cache = EmptyMap
    /\ cache_enabled = TRUE
    /\ cache_key = << >>
    /\ put_data = EmptyMap

\* no adapter, cache or reasoning-service call is in progress
NoAdapterCall ==
    /\ api_key = TRUE
    /\ adapter = "none"
    /\ fetched = << >>
    /\ response = "none"
    /\ depth = 0
    /\ outcome = "none"
    /\ result = EmptyMap
    /\ NoCache
    /\ clock = 0
    /\ user_prompt = 0
    /\ llm_usage = EmptyMap

\* GraphState(ticker=ticker, as_of_date=as_of_date): time_horizon takes its default
DefaultInputs ==
    /\ as_of_date = "2025-11-11"
    /\ time_horizon = "medium"

IdleStatus == [n \in Nodes |-> "idle"]
NoWrites == [n \in Nodes |-> EmptyMap]

\* initial_state = GraphState(ticker=..., as_of_date=...).model_dump()
Init ==
    /\ pc = "run"
    /\ triggered = {"Seed"}
    /\ status = IdleStatus
    /\ writes = NoWrites
    /\ runs = [n \in Nodes |-> 0]
    /\ started = {}
    /\ committed = {}
    /\ ticker \in Tickers
    /\ data_sources = EmptyMap
    /\ analyses = EmptyMap
    /\ decision = EmptyMap
    /\ token_usage = ZeroUsage
    /\ notes = << >>
    /\ slots = [k \in DeclaredSlots |-> SlotDefault(k)]
    /\ keyOrder = SchemaOrder
    /\ produced = ZeroUsage
    /\ applications = 0
    /\ NoSimpleGraph
    /\ NoJobs
    /\ NoPersonaCall
    /\ NoAdapterCall
    /\ DefaultInputs

StateVars ==
    <<ticker, as_of_date, time_horizon, data_sources, analyses, decision, token_usage,
      notes, slots, keyOrder>>

\* a triggered node begins executing on the state of the superstep
StartNode(n) ==
    /\ pc = "run"
    /\ n \in triggered
    /\ status[n] = "idle"
    /\ status' = [status EXCEPT ![n] = "running"]
    /\ started' = started \cup {n}
    /\ UNCHANGED <<pc, triggered, writes, runs, committed, StateVars, produced, applications>>
    /\ UNCHANGED <<SimpleGraphVars, PersonaVars, JobVars, AdapterVars>>

\* the node returns `out`; the update is held until the superstep ends
Return(n, out) ==
    /\ pc = "run"
    /\ status[n] = "running"
    /\ status' = [status EXCEPT ![n] = "done"]
    /\ writes' = [writes EXCEPT ![n] = out]
    /\ runs' = [runs EXCEPT ![n] = @ + 1]
    /\ UNCHANGED <<pc, triggered, started, committed, StateVars, applications>>
    /\ UNCHANGED <<SimpleGraphVars, PersonaVars, JobVars, AdapterVars>>

\* a seed step that rewrites the ticker it was given
FinishSeedRewritesTicker ==
    /\ Return("Seed", Put(EmptyMap, CKey("ticker"), "AAPL"))
    /\ UNCHANGED produced

\* seed_fn returns {}
FinishSeed ==
    /\ Return("Seed", EmptyMap)
    /\ UNCHANGED produced

FinishMapper(n, ev) ==
    /\ n \in MapperNodes
    /\ ev \in EvidenceChoices(n)
    /\ Return(n, MapperOutput(n, ev))
    /\ UNCHANGED produced

FinishPersona(n, usage) ==
    /\ n \in PersonaNodes
    /\ usage \in UsageChoices
    /\ Return(n, PersonaOutput(n, usage))
    /\ produced' = [prompt |-> produced.prompt + usage.prompt_tokens,
                    completion |-> produced.completion + usage.completion_tokens]

\* fault: a consolidation also appends a line to notes
FinishConsolidationLogs(n) ==
    /\ n \in ConsolidationNodes
    /\ Return(n, Put(consolidate_state(slots, keyOrder, token_usage),
                     CKey("notes"), Append(notes, "consolidated")))
    /\ UNCHANGED produced

\* a hub or the final Consolidate node runs consolidate_state
FinishConsolidation(n) ==
    /\ n \in ConsolidationNodes
    /\ Return(n, consolidate_state(slots, keyOrder, token_usage))
    /\ UNCHANGED produced

\* fault: the synthesizer also returns a fresh token_usage
FinishFinalizeResetsUsage ==
    /\ Return("FinalizeDecision",
              Put(Put(EmptyMap, CKey("decision"), finalize_decision(ticker, analyses, slots)),
                  CKey("token_usage"), ZeroUsage))
    /\ UNCHANGED produced

FinishFinalize ==
    /\ Return("FinalizeDecision",
              Put(EmptyMap, CKey("decision"), finalize_decision(ticker, analyses, slots)))
    /\ UNCHANGED produced

\* an exception escapes a mapper or persona: nothing catches it between the
\* node and the caller of run_langgraph_pipeline
RaiseUnit(n) ==
    /\ pc = "run"
    /\ n \in UnitNodes
    /\ status[n] = "running"
    /\ status' = [status EXCEPT ![n] = "failed"]
    /\ pc' = "aborted"
    /\ UNCHANGED <<triggered, writes, runs, started, committed, StateVars, produced, applications>>
    /\ UNCHANGED <<SimpleGraphVars, PersonaVars, JobVars, AdapterVars>>

Writers(k) == {n \in triggered : k \in DOMAIN writes[n]}

\* the updates of the superstep, restricted to the keys the state keeps
MergedWrites ==
    [k \in {c \in Channels : Writers(c) # {}} |-> writes[CHOOSE n \in Writers(k) : TRUE][k]]

\* a key may receive only one value per superstep
WriteConflict == \E k \in Channels : Cardinality(Writers(k)) > 1

\* every node of the superstep has returned: merge the updates and trigger
\* the nodes the finished ones have an edge to
EndStep ==
    /\ pc = "run"
    /\ \A n \in triggered : status[n] = "done"
    /\ IF WriteConflict
       THEN /\ pc' = "aborted"
            /\ UNCHANGED <<triggered, status, writes, committed, StateVars>>
       ELSE LET m == MergedWrites
            IN  /\ data_sources' = Get(m, CKey("data_sources"), data_sources)
                /\ analyses' = Get(m, CKey("analyses"), analyses)
                /\ decision' = Get(m, CKey("decision"), decision)
                /\ token_usage' = Get(m, CKey("token_usage"), token_usage)
                /\ notes' = Get(m, CKey("notes"), notes)
                /\ slots' = [k \in DOMAIN slots |-> Get(m, k, slots[k])]
                /\ committed' = committed \cup triggered
                /\ triggered' = Successors(triggered)
                /\ status' = IdleStatus
                /\ writes' = NoWrites
                /\ pc' = IF Successors(triggered) = {} THEN "done" ELSE "run"
                /\ ticker' = Get(m, CKey("ticker"), ticker)
                /\ as_of_date' = Get(m, CKey("as_of_date"), as_of_date)
                /\ time_horizon' = Get(m, CKey("time_horizon"), time_horizon)
                /\ UNCHANGED keyOrder
    /\ UNCHANGED <<runs, started, produced, applications>>
    /\ UNCHANGED <<SimpleGraphVars, PersonaVars, JobVars, AdapterVars>>

Next ==
    \/ \E n \in Nodes : StartNode(n)
    \/ FinishSeed
    \/ \E n \in MapperNodes : \E ev \in EvidenceChoices(n) : FinishMapper(n, ev)
    \/ \E n \in PersonaNodes : \E u \in UsageChoices : FinishPersona(n, u)
    \/ \E n \in ConsolidationNodes : FinishConsolidation(n)
    \/ FinishFinalize
    \/ \E n \in UnitNodes : RaiseUnit(n)
    \/ EndStep

Spec == Init /\ [][Next]_vars

TypeOK ==
    /\ pc \in {"run", "done", "aborted", "in", "parsed", "out", "build",
              "call", "request", "load", "reported", "serve"}
    /\ triggered \subseteq Nodes
    /\ token_usage.prompt >= 0

(***************************************************************************)
(* finalize_decision applied to arbitrary states                           *)
(***************************************************************************)
Absent == "<absent>"
NoConfidence == -1

\* a Result with the given governance fields; a marker leaves the key out
MakeResult(s, fa, d, r, sm, c) ==
    LET full == [stance |-> s, final_action |-> fa, decision |-> d,
                 rationale |-> r, summary |-> sm, confidence |-> c]
        present(f) == IF f = "confidence" THEN full[f] # NoConfidence ELSE full[f] # Absent
    IN  [f \in {g \in DOMAIN full : present(g)} |-> full[f]]

GovernanceResults ==
    {MakeResult(s, fa, d, r, sm, c) :
        s \in {Absent, "", "bull"}, fa \in {Absent, "", "sell"}, d \in {Absent, "", "buy"},
        r \in {Absent, "", "momentum"}, sm \in {Absent, "", "thesis"}, c \in {NoConfidence, 0}}

TraderExample == [decision |-> "buy", stance |-> "bull", rationale |-> "momentum"]
RefereeExample == [confidence |-> 40, summary |-> "thesis"]

\* how a governance name may appear in analyses: missing, or with a Result
NoEntry == [present |-> FALSE, value |-> EmptyMap]
Entry(r) == [present |-> TRUE, value |-> r]
SmallEntries == {NoEntry, Entry(EmptyMap), Entry(RefereeExample)}
FullEntries == {Entry(r) : r \in GovernanceResults}

AnalysesOf(rj, tr, rf) ==
    LET e == [RiskJudge |-> rj, Trader |-> tr, ResearchReferee |-> rf]
    IN  [n \in {m \in DOMAIN e : e[m].present} |-> e[n].value]

\* raw a__ payloads the state may carry besides the declared fields
ExtraSlotChoices ==
    {EmptyMap,
     Put(EmptyMap, AKey("RiskJudge"), [final_action |-> "sell", stance |-> "bear"]),
     Put(EmptyMap, AKey("ResearchReferee"), RefereeExample)}

HarnessFrame ==
    /\ triggered = {}
    /\ status = IdleStatus
    /\ writes = NoWrites
    /\ runs = [n \in Nodes |-> 0]
    /\ started = {}
    /\ committed = {}
    /\ notes = << >>
    /\ produced = ZeroUsage
    /\ applications = 0
    /\ NoSimpleGraph
    /\ NoJobs
    /\ NoPersonaCall
    /\ NoAdapterCall
    /\ DefaultInputs

InitFinalize ==
    /\ pc = "in"
    /\ HarnessFrame
    /\ ticker \in Tickers
    /\ \E focus \in {"RiskJudge", "Trader", "ResearchReferee"} :
       \E full \in FullEntries :
       \E s1, s2 \in SmallEntries :
          analyses = CASE focus = "RiskJudge" -> AnalysesOf(full, s1, s2)
                       [] focus = "Trader" -> AnalysesOf(s1, full, s2)
                       [] focus = "ResearchReferee" -> AnalysesOf(s1, s2, full)
    /\ \E extra \in ExtraSlotChoices :
          slots = Update([k \in DeclaredSlots |-> SlotDefault(k)], extra)
    /\ keyOrder = SchemaOrder
    /\ data_sources = EmptyMap
    /\ decision = EmptyMap
    /\ token_usage = ZeroUsage

\* state.update(finalize_decision(state))
FinalizeStep ==
    /\ pc = "in"
    /\ decision' = finalize_decision(ticker, analyses, slots)
    /\ pc' = "out"
    /\ applications' = applications + 1
    /\ UNCHANGED <<triggered, status, writes, runs, started, committed, ticker,
                   as_of_date, time_horizon, data_sources, analyses, token_usage,
                   notes, slots, keyOrder, produced>>
    /\ UNCHANGED <<SimpleGraphVars, PersonaVars, JobVars, AdapterVars>>

NextFinalize == FinalizeStep

SpecFinalize == InitFinalize /\ [][NextFinalize]_vars

(***************************************************************************)
(* consolidate_state applied repeatedly to arbitrary states                *)
(***************************************************************************)
\* largest token count already accumulated in token_usage
MaxTokens == 1

\* number of successive applications of consolidate_state
MaxApplications == 2

Perms(S) ==
    {o \in [1..Cardinality(S) -> S] : \A i, j \in 1..Cardinality(S) : i # j => o[i] # o[j]}

\* what one transient key may hold: nothing (key missing) or a value
NoSlot == [present |-> FALSE, value |-> EmptyMap]
Slot(v) == [present |-> TRUE, value |-> v]

PersonaSlotChoices(name) ==
    {NoSlot, Slot(EmptyMap), Slot([stance |-> "neutral"])}
    \cup {Slot(PersonaResult(name, u)) : u \in UsageChoices}

SlotsOf(mk, fu, ta, ma) ==
    LET e == [k \in {MKey("market"), MKey("fundamentals"),
                     AKey("TechnicalAnalyst"), AKey("MacroAnalyst")} |->
                 CASE k = MKey("market") -> mk
                   [] k = MKey("fundamentals") -> fu
                   [] k = AKey("TechnicalAnalyst") -> ta
                   [] k = AKey("MacroAnalyst") -> ma]
    IN  [k \in {x \in DOMAIN e : e[x].present} |-> e[k].value]

InitConsolidate ==
    /\ pc = "in"
    /\ HarnessFrame
    /\ ticker = "AAPL"
    /\ \E mk \in {NoSlot, Slot(<< >>), Slot(<<"e1", "e2">>)} :
       \E fu \in {NoSlot, Slot(<<"e3">>)} :
       \E ta \in PersonaSlotChoices("TechnicalAnalyst") :
       \E ma \in PersonaSlotChoices("MacroAnalyst") :
          slots = SlotsOf(mk, fu, ta, ma)
    /\ keyOrder \in Perms(DOMAIN slots)
    /\ data_sources \in {EmptyMap, [market |-> <<"e0">>, news |-> <<"n1">>]}
    /\ analyses \in {EmptyMap, [Trader |-> TraderExample]}
    /\ decision = EmptyMap
    /\ token_usage \in [prompt : 0..MaxTokens, completion : 0..MaxTokens]

\* state.update(consolidate_state(state))
ConsolidateStep ==
    /\ pc \in {"in", "out"}
    /\ applications < MaxApplications
    /\ LET r == consolidate_state(slots, keyOrder, token_usage)
       IN  /\ data_sources' = Get(r, CKey("data_sources"), data_sources)
           /\ analyses' = Get(r, CKey("analyses"), analyses)
           /\ token_usage' = Get(r, CKey("token_usage"), token_usage)
    /\ pc' = "out"
    /\ applications' = applications + 1
    /\ UNCHANGED <<triggered, status, writes, runs, started, committed, ticker,
                   as_of_date, time_horizon, decision, notes, slots, keyOrder, produced>>
    /\ UNCHANGED <<SimpleGraphVars, PersonaVars, JobVars, AdapterVars>>

NextConsolidate == ConsolidateStep

SpecConsolidate == InitConsolidate /\ [][NextConsolidate]_vars

(***************************************************************************)
(* consolidate_state applied to a GraphState instance                      *)
(***************************************************************************)
\* GraphState(ticker=..., m__market=..., ...).model_dump(): every declared
\* transient field is a key, a field that was not given holds its default
GraphStateSlots(given) == Update([k \in DeclaredSlots |-> SlotDefault(k)], given)

InitConsolidateGraphState ==
    /\ pc = "in"
    /\ HarnessFrame
    /\ ticker = "AAPL"
    /\ \E mk \in {NoSlot, Slot(<<"e1", "e2">>)} :
       \E fu \in {NoSlot, Slot(<<"e3">>)} :
       \E ta \in PersonaSlotChoices("TechnicalAnalyst") :
       \E ma \in PersonaSlotChoices("MacroAnalyst") :
          slots = GraphStateSlots(SlotsOf(mk, fu, ta, ma))
    /\ keyOrder = SchemaOrder
    /\ data_sources \in {EmptyMap, [market |-> <<"e0">>, news |-> <<"n1">>]}
    /\ analyses \in {EmptyMap, [Trader |-> TraderExample]}
    /\ decision = EmptyMap
    /\ token_usage \in [prompt : 0..MaxTokens, completion : 0..MaxTokens]

SpecConsolidateGraphState == InitConsolidateGraphState /\ [][NextConsolidate]_vars

(***************************************************************************)
(* SimpleGraph: construction by a client, then run                         *)
(*                                                                         *)
(* A Node object is identified by the order of its creation: object i has  *)
(* name node_name[i] and downstream list node_next[i].                     *)
(***************************************************************************)
\* number of Node objects the client creates
MaxNodeObjects == 2

\* length of a Node's downstream list
MaxNext == 1

\* number of add_node(..., entry=True) calls
MaxEntrypoints == 2

NodeNames == {"A", "B"}

\* what the func wrapped by a Node returns: one key named after the node
NodeFuncOutput(id) ==
    Put(EmptyMap, AKey(node_name[id]), PersonaResult(node_name[id], [prompt_tokens |-> 0, completion_tokens |-> 0]))

InitSimpleGraph ==
    /\ pc = "build"
    /\ triggered = {}
    /\ status = IdleStatus
    /\ writes = NoWrites
    /\ runs = [n \in Nodes |-> 0]
    /\ started = {}
    /\ committed = {}
    /\ ticker = "AAPL"
    /\ data_sources = EmptyMap
    /\ analyses = EmptyMap
    /\ decision = EmptyMap
    /\ token_usage = ZeroUsage
    /\ notes = << >>
    /\ slots = [k \in DeclaredSlots |-> SlotDefault(k)]
    /\ keyOrder = SchemaOrder
    /\ produced = ZeroUsage
    /\ applications = 0
    /\ NoSimpleGraph
    /\ NoJobs
    /\ NoPersonaCall
    /\ NoAdapterCall
    /\ DefaultInputs

PipelineVars ==
    <<triggered, status, writes, runs, started, committed, ticker, as_of_date,
      time_horizon, data_sources, analyses, decision, token_usage, notes, keyOrder,
      produced, applications>>

\* Node(name, func)
NewNode(name) ==
    /\ pc = "build"
    /\ Len(node_name) < MaxNodeObjects
    /\ node_name' = Append(node_name, name)
    /\ node_next' = Append(node_next, << >>)
    /\ UNCHANGED <<pc, graph_nodes, entrypoints, frontier, seen, executed, slots>>
    /\ UNCHANGED <<PipelineVars, PersonaVars, JobVars, AdapterVars>>

\* Node.connect(node)
connect(a, b) ==
    /\ pc = "build"
    /\ a \in DOMAIN node_name
    /\ b \in DOMAIN node_name
    /\ Len(node_next[a]) < MaxNext
    /\ node_next' = [node_next EXCEPT ![a] = Append(@, b)]
    /\ UNCHANGED <<pc, node_name, graph_nodes, entrypoints, frontier, seen, executed, slots>>
    /\ UNCHANGED <<PipelineVars, PersonaVars, JobVars, AdapterVars>>

\* SimpleGraph.add_node(node, entry)
add_node(id, entry) ==
    /\ pc = "build"
    /\ id \in DOMAIN node_name
    /\ entry => Len(entrypoints) < MaxEntrypoints
    /\ graph_nodes' = Put(graph_nodes, node_name[id], id)
    /\ entrypoints' = IF entry THEN Append(entrypoints, id) ELSE entrypoints
    /\ UNCHANGED <<pc, node_name, node_next, frontier, seen, executed, slots>>
    /\ UNCHANGED <<PipelineVars, PersonaVars, JobVars, AdapterVars>>

\* SimpleGraph.run: frontier = list(self.entrypoints); seen = set()
RunBegin ==
    /\ pc = "build"
    /\ pc' = "run"
    /\ frontier' = entrypoints
    /\ seen' = {}
    /\ UNCHANGED <<node_name, node_next, graph_nodes, entrypoints, executed, slots>>
    /\ UNCHANGED <<PipelineVars, PersonaVars, JobVars, AdapterVars>>

\* one iteration of the while loop for a node whose name is in seen
RunSkip ==
    /\ pc = "run"
    /\ frontier # << >>
    /\ node_name[Head(frontier)] \in seen
    /\ frontier' = Tail(frontier)
    /\ UNCHANGED <<pc, node_name, node_next, graph_nodes, entrypoints, seen, executed, slots>>
    /\ UNCHANGED <<PipelineVars, PersonaVars, JobVars, AdapterVars>>

\* one iteration of the while loop for a node whose name is not in seen
RunNode ==
    /\ pc = "run"
    /\ frontier # << >>
    /\ LET node == Head(frontier)
       IN  /\ node_name[node] \notin seen
           /\ seen' = seen \cup {node_name[node]}
           /\ executed' = Append(executed, node)
           /\ slots' = Update(slots, NodeFuncOutput(node))
           /\ frontier' = Tail(frontier) \o node_next[node]
    /\ UNCHANGED <<pc, node_name, node_next, graph_nodes, entrypoints>>
    /\ UNCHANGED <<PipelineVars, PersonaVars, JobVars, AdapterVars>>

\* the frontier is empty: return state
RunEnd ==
    /\ pc = "run"
    /\ frontier = << >>
    /\ pc' = "done"
    /\ UNCHANGED <<node_name, node_next, graph_nodes, entrypoints, frontier, seen, executed, slots>>
    /\ UNCHANGED <<PipelineVars, PersonaVars, JobVars, AdapterVars>>

NextSimpleGraph ==
    \/ \E name \in NodeNames : NewNode(name)
    \/ \E a, b \in DOMAIN node_name : connect(a, b)
    \/ \E id \in DOMAIN node_name : \E entry \in BOOLEAN : add_node(id, entry)
    \/ RunBegin
    \/ RunSkip
    \/ RunNode
    \/ RunEnd

SpecSimpleGraph == InitSimpleGraph /\ [][NextSimpleGraph]_vars

(***************************************************************************)
(* BasePersona._analyze and _parse_response                                *)
(*                                                                         *)
(* A response text is a sequence of lexical units: a blank, the            *)
(* punctuation of JSON, the JSON string "stance" (written s) and a bare    *)
(* word that is not JSON (written x).                                      *)
(***************************************************************************)
Chars == {" ", "{", "}", "[", "]", ":", "s", "x"}

\* longest response text
MaxTextLen == 5

Texts == UNION {[1..n -> Chars] : n \in 0..MaxTextLen}

RECURSIVE LStrip(_)
LStrip(t) == IF t # << >> /\ Head(t) = " " THEN LStrip(Tail(t)) ELSE t

RECURSIVE RStrip(_)
RStrip(t) == IF t # << >> /\ t[Len(t)] = " " THEN RStrip(SubSeq(t, 1, Len(t) - 1)) ELSE t

\* str.strip()
strip(t) == RStrip(LStrip(t))

At(t, i) == IF i \in DOMAIN t THEN t[i] ELSE "<end>"

RECURSIVE SkipBlanks(_, _)
SkipBlanks(t, i) == IF At(t, i) = " " THEN SkipBlanks(t, i + 1) ELSE i

\* json.JSONDecodeError
DecodeError == [ok |-> FALSE, next |-> 0, type |-> "none", members |-> EmptyMap]

Decoded(type, next, members) == [ok |-> TRUE, next |-> next, type |-> type, members |-> members]

\* the JSON value that starts at position i: a string, an array of at most
\* one value, or an object of at most one member
RECURSIVE ParseValue(_, _)
ParseValue(t, i) ==
    LET c == At(t, i)
    IN  CASE c = "s" -> Decoded("string", i + 1, EmptyMap)
          [] c = "[" ->
                LET j == SkipBlanks(t, i + 1)
                IN  IF At(t, j) = "]" THEN Decoded("array", j + 1, EmptyMap)
                    ELSE LET v == ParseValue(t, j)
                             k == SkipBlanks(t, v.next)
                         IN  IF v.ok /\ At(t, k) = "]"
                             THEN Decoded("array", k + 1, EmptyMap)
                             ELSE DecodeError
          [] c = "{" ->
                LET j == SkipBlanks(t, i + 1)
                IN  IF At(t, j) = "}" THEN Decoded("object", j + 1, EmptyMap)
                    ELSE IF At(t, j) # "s" THEN DecodeError
                    ELSE LET k == SkipBlanks(t, j + 1)
                         IN  IF At(t, k) # ":" THEN DecodeError
                             ELSE LET b == SkipBlanks(t, k + 1)
                                      v == ParseValue(t, b)
                                      m == SkipBlanks(t, v.next)
                                  IN  IF v.ok /\ At(t, m) = "}"
                                      THEN Decoded("object", m + 1,
                                                   [stance |-> [type |-> v.type,
                                                                src |-> SubSeq(t, b, v.next - 1)]])
                                      ELSE DecodeError
          [] OTHER -> DecodeError

\* json.loads(text): one value, blanks allowed around it, nothing after it
json_loads(t) ==
    LET v == ParseValue(t, SkipBlanks(t, 1))
    IN  IF v.ok /\ SkipBlanks(t, v.next) = Len(t) + 1 THEN v ELSE DecodeError

\* fault: an empty text is not told apart from an unparsable one
parse_response_NoEmptyCheck(t0) ==
    LET t == strip(t0)
        data == json_loads(t)
    IN  IF data.ok /\ data.type = "object" THEN data.members
        ELSE [stance |-> "neutral", summary |-> t]

\* BasePersona._parse_response
parse_response(t0) ==
    LET t == strip(t0)
    IN  IF t = << >> THEN [stance |-> "neutral", summary |-> <<"No response">>]
        ELSE LET data == json_loads(t)
             IN  IF data.ok /\ data.type = "object" THEN data.members
                 ELSE [stance |-> "neutral", summary |-> t]

\* dict.setdefault
SetDefault(m, k, v) == IF k \in DOMAIN m THEN m ELSE Put(m, k, v)

AnalyzedPersona == "TechnicalAnalyst"

InitPersona ==
    /\ pc = "in"
    /\ triggered = {}
    /\ status = IdleStatus
    /\ writes = NoWrites
    /\ runs = [n \in Nodes |-> 0]
    /\ started = {}
    /\ committed = {}
    /\ notes = << >>
    /\ produced = ZeroUsage
    /\ applications = 0
    /\ ticker = "AAPL"
    /\ data_sources = EmptyMap
    /\ analyses = EmptyMap
    /\ decision = EmptyMap
    /\ token_usage = ZeroUsage
    /\ slots = [k \in DeclaredSlots |-> SlotDefault(k)]
    /\ keyOrder = SchemaOrder
    /\ NoSimpleGraph
    /\ NoJobs
    /\ NoAdapterCall
    /\ DefaultInputs
    /\ text \in Texts
    /\ analysis = EmptyMap

\* analysis = self._parse_response(text)
ParseStep ==
    /\ pc = "in"
    /\ analysis' = parse_response(text)
    /\ pc' = "parsed"
    /\ UNCHANGED <<PipelineVars, SimpleGraphVars, AdapterVars, JobVars, slots, text>>

\* the two setdefault calls and analysis["usage"] = usage
AnalyzeStep(usage) ==
    /\ pc = "parsed"
    /\ analysis' = Put(SetDefault(SetDefault(analysis, "persona", AnalyzedPersona),
                                  "raw_response", text),
                       "usage", usage)
    /\ pc' = "out"
    /\ UNCHANGED <<PipelineVars, SimpleGraphVars, AdapterVars, JobVars, slots, text>>

NextPersona ==
    \/ ParseStep
    \/ \E usage \in UsageChoices : AnalyzeStep(usage)

SpecPersona == InitPersona /\ [][NextPersona]_vars

(***************************************************************************)
(* An evidence-gathering unit and the Alpha Vantage fetch behind it        *)
(***************************************************************************)
\* depth of nested _call invocations at which the interpreter raises RecursionError
RecursionLimit == 3

\* no graph is running and the state is as constructed
IdleRun ==
    /\ triggered = {}
    /\ status = IdleStatus
    /\ writes = NoWrites
    /\ runs = [n \in Nodes |-> 0]
    /\ started = {}
    /\ committed = {}
    /\ notes = << >>
    /\ produced = ZeroUsage
    /\ applications = 0
    /\ ticker = "AAPL"
    /\ data_sources = EmptyMap
    /\ analyses = EmptyMap
    /\ decision = EmptyMap
    /\ token_usage = ZeroUsage
    /\ slots = [k \in DeclaredSlots |-> SlotDefault(k)]
    /\ keyOrder = SchemaOrder
    /\ NoSimpleGraph
    /\ NoJobs
    /\ NoPersonaCall

\* the mappers whose load() goes through an Alpha Vantage client with _call
FetchingMappers == {"FundamentalsMapper", "MacroMapper"}

\* what the vendor may answer to one request: a rate-limit note, a payload with
\* usable fields, a payload without any, or a failure of the request itself
Responses == {"note", "data", "empty", "error"}

\* the requests of one fetch: OVERVIEW and INCOME_STATEMENT, or indicators_config
FundamentalsRequests == <<"OVERVIEW", "INCOME_STATEMENT">>
IndicatorsConfig ==
    <<"CPI", "INFLATION", "FEDERAL_FUNDS_RATE", "TREASURY_YIELD", "UNEMPLOYMENT",
      "REAL_GDP", "RETAIL_SALES">>
RequestsOf(a) == IF a = "FundamentalsMapper" THEN FundamentalsRequests ELSE IndicatorsConfig

\* date.fromisoformat(gs.as_of_date) succeeds
IsIsoDate(d) == d = "2025-11-11"

_mock_ratios == <<"ratio:mock">>
_mock_trend == <<"trend:mock">>
_get_fallback_macro_data ==
    <<"macro:fallback:CPI", "macro:fallback:INFLATION", "macro:fallback:FEDERAL_FUNDS_RATE",
      "macro:fallback:TREASURY_YIELD", "macro:fallback:UNEMPLOYMENT", "macro:fallback:REAL_GDP">>

\* the records FundamentalsMapper.load builds from fetch_fundamentals: an
\* exception inside the try, or an empty answer, is replaced by the mock values
FundamentalsItems(f) ==
    IF \E i \in DOMAIN f : f[i] = "raised"
    THEN _mock_ratios \o _mock_trend
    ELSE (IF f[1] = "data" THEN <<"ratio:vendor">> ELSE _mock_ratios)
         \o (IF f[2] = "data" THEN <<"trend:vendor">> ELSE _mock_trend)

RECURSIVE AllIndicators(_, _)
\* all_indicators of fetch_macro_indicators after the first i entries of indicators_config
AllIndicators(f, i) ==
    IF i = 0 THEN << >>
    ELSE AllIndicators(f, i - 1) \o (IF f[i] = "data" THEN <<IndicatorsConfig[i]>> ELSE << >>)

\* the records MacroMapper.load builds from fetch_macro_indicators
MacroItems(f) ==
    LET all_indicators == AllIndicators(f, Len(f))
    IN  IF all_indicators = << >> THEN _get_fallback_macro_data ELSE all_indicators

InitEvidence ==
    /\ pc = "call"
    /\ IdleRun
    /\ as_of_date \in {"2025-11-11", "11/11/2025"}
    /\ time_horizon = "medium"
    /\ api_key \in BOOLEAN
    /\ adapter \in FetchingMappers
    /\ fetched = << >>
    /\ response = "none"
    /\ depth = 0
    /\ outcome = "none"
    /\ result = EmptyMap
    /\ NoCache
    /\ clock = 0
    /\ user_prompt = 0
    /\ llm_usage = EmptyMap

EvidenceFrame ==
    UNCHANGED <<PipelineVars, SimpleGraphVars, PersonaVars, JobVars, slots, api_key, adapter,
                cache, cache_enabled, cache_key, put_data, clock, user_prompt, llm_usage>>

\* the unit ends with an exception that leaves BaseMapper.__call__
Raise(exc) ==
    /\ outcome' = "raised"
    /\ result' = Put(EmptyMap, CKey("error"), exc)
    /\ pc' = "done"

\* BaseMapper.__call__ up to the creation of the client: the date is parsed, load()
\* calls the fetch function, which reads the credential before its try block
MapperCall ==
    /\ pc = "call"
    /\ IF ~IsIsoDate(as_of_date)
       THEN Raise("ValueError") /\ UNCHANGED depth
       ELSE IF ~api_key
            THEN Raise("EnvironmentError") /\ UNCHANGED depth
            ELSE /\ pc' = "request"
                 /\ depth' = 1
                 /\ UNCHANGED <<outcome, result>>
    /\ UNCHANGED <<fetched, response>>
    /\ EvidenceFrame

\* the outermost _call returns (or raises) with v: the next request begins, or
\* the fetch is over
CallEnds(v) ==
    /\ fetched' = Append(fetched, v)
    /\ IF v = "raised" \/ Len(fetched) + 1 = Len(RequestsOf(adapter))
       THEN pc' = "load" /\ depth' = 0
       ELSE pc' = "request" /\ depth' = 1

\* fault: a rate-limit note is answered by giving up at once
_callGivesUpOnNote(resp) ==
    /\ pc = "request"
    /\ resp \in Responses
    /\ response' = resp
    /\ CASE resp = "note" -> CallEnds("empty")
         [] resp = "error" ->
                CallEnds(IF adapter = "FundamentalsMapper" THEN "raised" ELSE "empty")
         [] OTHER -> CallEnds(resp)
    /\ UNCHANGED <<outcome, result>>
    /\ EvidenceFrame

\* one requests.get inside _call and what _call does with the answer.
\* AlphaVantageClient._call lets exceptions out (fetch_fundamentals catches them);
\* AlphaVantageMacroClient._call catches them itself and returns {}.
_call(resp) ==
    /\ pc = "request"
    /\ resp \in Responses
    /\ response' = resp
    /\ CASE resp = "note" ->
                \* time.sleep(60); return self._call(params)
                IF depth < RecursionLimit
                THEN /\ depth' = depth + 1
                     /\ UNCHANGED <<pc, fetched>>
                ELSE CallEnds(IF adapter = "FundamentalsMapper" THEN "raised" ELSE "empty")
         [] resp = "error" ->
                CallEnds(IF adapter = "FundamentalsMapper" THEN "raised" ELSE "empty")
         [] OTHER -> CallEnds(resp)
    /\ UNCHANGED <<outcome, result>>
    /\ EvidenceFrame

\* the end of the fetch function, load() and the return of BaseMapper.__call__
MapperReturn ==
    /\ pc = "load"
    /\ outcome' = "returned"
    /\ result' = Put(EmptyMap, MKey(MapperType(adapter)),
                     IF adapter = "FundamentalsMapper"
                     THEN FundamentalsItems(fetched)
                     ELSE MacroItems(fetched))
    /\ pc' = "done"
    /\ UNCHANGED <<fetched, response, depth>>
    /\ EvidenceFrame

NextEvidence ==
    \/ MapperCall
    \/ \E resp \in Responses : _call(resp)
    \/ MapperReturn

SpecEvidence == InitEvidence /\ [][NextEvidence]_vars

(***************************************************************************)
(* LLMService.complete                                                     *)
(***************************************************************************)
\* longest user prompt given to complete
MaxPromptLen == 203

\* user_prompt[:200] and the len(...) // 4 token estimate
SliceLen == 200
CharsPerToken == 4

\* os.getenv("LLM_MODEL", "gpt-4o-mini")
model == "gpt-4o-mini"

\* subclasses of requests.RequestException raised by post or raise_for_status
RequestExceptions == {"ConnectionError", "Timeout", "HTTPError"}

\* how the request of the real API call may end: with one of the exceptions,
\* with a body that response.json() or choices[0] cannot read, or with a completion
LLMResponses == RequestExceptions \cup {"unreadable", "completion"}

Min(a, b) == IF a <= b THEN a ELSE b

\* LLMUsage(len(user_prompt) // 4, len(text) // 4, 0.0).to_dict()
EstimatedUsage(prompt_len, text_len) ==
    [prompt_tokens |-> prompt_len \div CharsPerToken,
     completion_tokens |-> text_len \div CharsPerToken,
     cost_usd |-> 0]

\* f"[{tag}] {user_prompt[:200]}": the placeholder text, by its tag and length
Placeholder(tag, prompt_len) ==
    [tag |-> tag, len |-> Len("[" \o tag \o "] ") + Min(prompt_len, SliceLen)]

InitComplete ==
    /\ pc = "call"
    /\ IdleRun
    /\ DefaultInputs
    /\ api_key \in BOOLEAN
    /\ user_prompt \in 0..MaxPromptLen
    /\ adapter = "none"
    /\ fetched = << >>
    /\ response = "none"
    /\ depth = 0
    /\ outcome = "none"
    /\ result = EmptyMap
    /\ NoCache
    /\ clock = 0
    /\ llm_usage = EmptyMap

\* one call of complete: mock mode when no key is configured, else the request
complete(resp, vendor_usage) ==
    /\ pc = "call"
    /\ resp \in LLMResponses
    /\ vendor_usage \in UsageChoices
    /\ pc' = "done"
    /\ IF ~api_key
       THEN LET placeholder == Placeholder("MOCK:" \o model, user_prompt)
            IN  /\ result' = placeholder
                /\ llm_usage' = EstimatedUsage(user_prompt, placeholder.len)
                /\ outcome' = "returned"
                /\ UNCHANGED response
       ELSE /\ response' = resp
            /\ CASE resp \in RequestExceptions ->
                        LET placeholder == Placeholder("LLM-OFFLINE:" \o resp, user_prompt)
                        IN  /\ result' = placeholder
                            /\ llm_usage' = EstimatedUsage(user_prompt, placeholder.len)
                            /\ outcome' = "returned"
                 [] resp = "unreadable" ->
                        /\ result' = Put(EmptyMap, CKey("error"), "ValueError")
                        /\ outcome' = "raised"
                        /\ UNCHANGED llm_usage
                 [] OTHER ->
                        /\ result' = [tag |-> "content", len |-> vendor_usage.completion_tokens]
                        /\ llm_usage' = [prompt_tokens |-> vendor_usage.prompt_tokens,
                                         completion_tokens |-> vendor_usage.completion_tokens,
                                         cost_usd |-> 0]
                        /\ outcome' = "returned"
    /\ UNCHANGED <<PipelineVars, SimpleGraphVars, PersonaVars, JobVars, slots, api_key, adapter,
                   fetched, depth, cache, cache_enabled, cache_key, put_data, clock,
                   user_prompt>>

NextComplete == \E resp \in LLMResponses : \E vendor_usage \in UsageChoices : complete(resp, vendor_usage)

SpecComplete == InitComplete /\ [][NextComplete]_vars

(***************************************************************************)
(* The cache of adapter outputs (cache.py)                                 *)
(***************************************************************************)
\* DEFAULT_CONFIG["cache"]["ttl_sec"], and the last reading of time.time()
ttl_sec == 2
MaxClock == 4

\* a python list or tuple of numbers
PyList(items) == [py |-> "list", items |-> items]
PyTuple(items) == [py |-> "tuple", items |-> items]

\* adapter outputs given to save_to_cache: dicts with string keys whose values
\* json.dumps accepts
DataChoices ==
    {[series |-> PyList(<<1, 2>>)], [series |-> PyList(<< >>)], [series |-> PyTuple(<<1, 2>>)]}

\* (adapter_name, params) pairs; _make_cache_key gives each its own file name
CacheKeys == {<<"prices_yf", [ticker |-> "AAPL"]>>, <<"prices_yf", [ticker |-> "MSFT"]>>}

\* the value None and the JSON document null
PyNone == [py |-> "None"]
JsonNull == [json |-> "null"]

\* json.dumps of a data dict: lists and tuples both become arrays; None becomes null
json_dumps(data) ==
    IF data = PyNone THEN JsonNull
    ELSE [k \in DOMAIN data |-> [json |-> "array", items |-> data[k].items]]

\* json.loads of a stored document: every array becomes a list, null becomes None
json_loads_document(doc) ==
    IF doc = JsonNull THEN PyNone
    ELSE [k \in DOMAIN doc |-> PyList(doc[k].items)]

Remove(m, k) == [x \in (DOMAIN m) \ {k} |-> m[x]]

InitCache ==
    /\ pc = "call"
    /\ IdleRun
    /\ DefaultInputs
    /\ api_key = TRUE
    /\ adapter = "none"
    /\ fetched = << >>
    /\ response = "none"
    /\ depth = 0
    /\ outcome = "none"
    /\ result = EmptyMap
    /\ cache = EmptyMap
    /\ cache_enabled \in BOOLEAN
    /\ cache_key = << >>
    /\ put_data = EmptyMap
    /\ clock = 0
    /\ user_prompt = 0
    /\ llm_usage = EmptyMap

CacheFrame ==
    UNCHANGED <<pc, PipelineVars, SimpleGraphVars, PersonaVars, JobVars, slots, api_key, adapter,
                fetched, response, depth, cache_enabled, user_prompt, llm_usage>>

\* time passes between two cache calls
Tick ==
    /\ clock < MaxClock
    /\ clock' = clock + 1
    /\ UNCHANGED <<cache, cache_key, put_data, outcome, result>>
    /\ CacheFrame

save_to_cache(key, data) ==
    /\ key \in CacheKeys
    /\ data \in DataChoices
    /\ cache_key' = key
    /\ outcome' = "saved"
    /\ result' = EmptyMap
    /\ IF ~cache_enabled
       THEN UNCHANGED <<cache, put_data>>
       ELSE /\ cache' = Put(cache, key, [timestamp |-> clock, data |-> json_dumps(data)])
            /\ put_data' = Put(put_data, key, data)
    /\ UNCHANGED clock
    /\ CacheFrame

\* unlinked: whether path.unlink() succeeded (an OSError is swallowed)
load_from_cache(key, unlinked) ==
    /\ key \in CacheKeys
    /\ unlinked \in BOOLEAN
    /\ cache_key' = key
    /\ IF ~cache_enabled \/ key \notin DOMAIN cache
       THEN /\ outcome' = "absent"
            /\ result' = EmptyMap
            /\ UNCHANGED <<cache, put_data>>
       ELSE LET payload == cache[key]
                age == clock - payload.timestamp
            IN  IF age > ttl_sec
                THEN /\ outcome' = "absent"
                     /\ result' = EmptyMap
                     /\ IF unlinked
                        THEN cache' = Remove(cache, key) /\ put_data' = Remove(put_data, key)
                        ELSE UNCHANGED <<cache, put_data>>
                ELSE /\ outcome' = "hit"
                     /\ result' = json_loads_document(payload.data)
                     /\ UNCHANGED <<cache, put_data>>
    /\ UNCHANGED clock
    /\ CacheFrame

NextCache ==
    \/ Tick
    \/ \E key \in CacheKeys : \E data \in DataChoices : save_to_cache(key, data)
    \/ \E key \in CacheKeys : \E unlinked \in BOOLEAN : load_from_cache(key, unlinked)

SpecCache == InitCache /\ [][NextCache]_vars

\* a fetched object whose model_dump() holds values json.dumps rejects (dates)
Unserializable == [py |-> "object"]

\* what fetch_func() may return; Raises stands for a fetch that raises
FetchResults == DataChoices \cup {PyNone, Unserializable}
Raises == [py |-> "raise"]
FetchOutcomes == FetchResults \cup {Raises}

\* whether path.write_text succeeds in save_to_cache
StoreOutcomes == {"written", "OSError"}

\* the entry of key is present and not older than the TTL
Fresh(key) ==
    /\ cache_enabled
    /\ key \in DOMAIN cache
    /\ clock - cache[key].timestamp <= ttl_sec

\* what load_from_cache returns for key
Cached(key) == IF Fresh(key) THEN json_loads_document(cache[key].data) ELSE PyNone

\* the cache files after load_from_cache: an expired entry is unlinked
AfterLoad(m, key, unlinked) ==
    IF cache_enabled /\ key \in DOMAIN cache /\ ~Fresh(key) /\ unlinked
    THEN Remove(m, key)
    ELSE m

\* cached_call(adapter_name, params, fetch_func)
cached_call(key, fetch, unlinked, store) ==
    /\ key \in CacheKeys
    /\ fetch \in FetchOutcomes
    /\ unlinked \in BOOLEAN
    /\ store \in StoreOutcomes
    /\ cache_key' = key
    /\ IF Cached(key) # PyNone
       THEN /\ outcome' = "returned_cached"
            /\ result' = Cached(key)
            /\ fetched' = << >>
            /\ response' = "none"
            /\ UNCHANGED <<cache, put_data>>
       ELSE /\ fetched' = <<fetch>>
            /\ IF fetch = Raises
               THEN /\ outcome' = "raised"
                    /\ result' = Put(EmptyMap, CKey("error"), "Exception")
                    /\ response' = "none"
                    /\ cache' = AfterLoad(cache, key, unlinked)
                    /\ put_data' = AfterLoad(put_data, key, unlinked)
               ELSE /\ outcome' = "returned_fetched"
                    /\ result' = fetch
                    /\ IF cache_enabled /\ fetch # Unserializable /\ store = "written"
                       THEN /\ response' = "stored"
                            /\ cache' = Put(AfterLoad(cache, key, unlinked), key,
                                            [timestamp |-> clock, data |-> json_dumps(fetch)])
                            /\ put_data' = Put(AfterLoad(put_data, key, unlinked), key, fetch)
                       ELSE /\ response' = IF cache_enabled THEN "store_failed" ELSE "none"
                            /\ cache' = AfterLoad(cache, key, unlinked)
                            /\ put_data' = AfterLoad(put_data, key, unlinked)
    /\ UNCHANGED <<pc, PipelineVars, SimpleGraphVars, PersonaVars, JobVars, slots, api_key, adapter,
                   depth, cache_enabled, clock, user_prompt, llm_usage>>

NextCachedCall ==
    \/ Tick
    \/ \E key \in CacheKeys : \E unlinked \in BOOLEAN : load_from_cache(key, unlinked)
    \/ \E key \in CacheKeys : \E fetch \in FetchOutcomes :
          \E unlinked \in BOOLEAN : \E store \in StoreOutcomes :
              cached_call(key, fetch, unlinked, store)

SpecCachedCall == InitCache /\ [][NextCachedCall]_vars

(***************************************************************************)
(* OrchestratorService.analyze_single around a pipeline run                *)
(***************************************************************************)
\* how the optional report saving ends: AUTO_SAVE_REPORTS is off, save_report
\* returned, or save_report (or its import) raised
ReportOutcomes == {"off", "saved", "failed"}

\* fault: the handler of a pipeline failure lets the exception out
analyze_singleReraises(saving) ==
    /\ pc \in {"done", "aborted"}
    /\ saving \in ReportOutcomes
    /\ pc' = "reported"
    /\ IF pc = "aborted"
       THEN /\ outcome' = "raised"
            /\ result' = Put(EmptyMap, CKey("error"), "Exception")
            /\ UNCHANGED response
       ELSE /\ outcome' = "returned"
            /\ result' = [status |-> "ok", ticker |-> ticker, as_of_date |-> as_of_date,
                          decision |-> decision, analyses |-> analyses,
                          data_sources |-> data_sources]
            /\ response' = saving
    /\ UNCHANGED <<triggered, status, writes, runs, started, committed, StateVars,
                   produced, applications>>
    /\ UNCHANGED <<SimpleGraphVars, PersonaVars, JobVars, api_key, adapter, fetched, depth, cache,
                   cache_enabled, cache_key, put_data, clock, user_prompt, llm_usage>>

\* the part of analyze_single after run_langgraph_pipeline has returned the
\* final state (pc = "done") or has raised (pc = "aborted")
analyze_single(saving) ==
    /\ pc \in {"done", "aborted"}
    /\ saving \in ReportOutcomes
    /\ pc' = "reported"
    /\ outcome' = "returned"
    /\ IF pc = "aborted"
       THEN /\ result' = [status |-> "error", ticker |-> ticker, message |-> "str(e)"]
            /\ UNCHANGED response
       ELSE /\ result' = [status |-> "ok", ticker |-> ticker, as_of_date |-> as_of_date,
                          decision |-> decision, analyses |-> analyses,
                          data_sources |-> data_sources]
            /\ response' = saving
    /\ UNCHANGED <<triggered, status, writes, runs, started, committed, StateVars,
                   produced, applications>>
    /\ UNCHANGED <<SimpleGraphVars, PersonaVars, JobVars, api_key, adapter, fetched, depth, cache,
                   cache_enabled, cache_key, put_data, clock, user_prompt, llm_usage>>

NextOrchestrator ==
    \/ Next
    \/ \E saving \in ReportOutcomes : analyze_single(saving)

SpecOrchestrator == Init /\ [][NextOrchestrator]_vars

(***************************************************************************)
(* FastMCP: job metadata and the background task of each job               *)
(***************************************************************************)
\* number of jobs submitted to one FastMCP instance
MaxJobs == 3

\* job ids in the order uuid4 hands them out; an id is never handed out twice
JobIds == 1..MaxJobs

\* the ids a caller may ask about: the submitted ones and one never handed out
QueryIds == 1..(MaxJobs + 1)

TickerLists == {<<"AAPL">>, <<"AAPL", "MSFT">>}

\* how the await of self._orchestrator.analyze_batch ends: OrchestratorService
\* defines __init__ and analyze_single only, so the attribute lookup raises
AnalyzeBatchOutcomes == {"AttributeError"}

InitMCP ==
    /\ pc = "serve"
    /\ IdleRun
    /\ DefaultInputs
    /\ NoAdapterCall

MCPFrame ==
    UNCHANGED <<pc, PipelineVars, SimpleGraphVars, PersonaVars, slots, api_key, adapter,
                fetched, response, depth, outcome, cache, cache_enabled, cache_key,
                put_data, clock, user_prompt, llm_usage>>

\* registers the job as running, schedules its task and returns the id
submit_job(tickers) ==
    LET job_id == Cardinality(DOMAIN jobs) + 1
    IN  /\ job_id \in JobIds
        /\ tickers \in TickerLists
        /\ jobs' = Put(jobs, job_id, [tickers |-> tickers, as_of_date |-> as_of_date,
                                      status |-> "running"])
        /\ tasks' = tasks \cup {job_id}
        /\ UNCHANGED <<job_query, result>>
        /\ MCPFrame

\* fault: no handler around the batch, the exception ends the task
_run_jobWithoutHandler(job_id, batch) ==
    /\ job_id \in tasks
    /\ batch \in AnalyzeBatchOutcomes \cup {"results"}
    /\ tasks' = tasks \ {job_id}
    /\ IF batch = "results"
       THEN jobs' = Put(jobs, job_id,
                        Update(jobs[job_id], [status |-> "completed", results |-> batch,
                                              finished_at |-> "utcnow"]))
       ELSE UNCHANGED jobs
    /\ UNCHANGED <<job_query, result>>
    /\ MCPFrame

\* the task created by submit_job, run by the event loop in one step (the
\* only await is the batch itself)
_run_job(job_id, batch) ==
    /\ job_id \in tasks
    /\ batch \in AnalyzeBatchOutcomes \cup {"results"}
    /\ tasks' = tasks \ {job_id}
    /\ IF batch = "results"
       THEN jobs' = Put(jobs, job_id,
                        Update(jobs[job_id], [status |-> "completed", results |-> batch,
                                              finished_at |-> "utcnow"]))
       ELSE jobs' = Put(jobs, job_id,
                        Update(jobs[job_id], [status |-> "error", error |-> batch]))
    /\ UNCHANGED <<job_query, result>>
    /\ MCPFrame

get_job_status(job_id) ==
    /\ job_id \in QueryIds
    /\ job_query' = job_id
    /\ result' = Get(jobs, job_id, [status |-> "not_found"])
    /\ UNCHANGED <<jobs, tasks>>
    /\ MCPFrame

NextMCP ==
    \/ \E tickers \in TickerLists : submit_job(tickers)
    \/ \E job_id \in JobIds : \E batch \in AnalyzeBatchOutcomes : _run_job(job_id, batch)
    \/ \E job_id \in QueryIds : get_job_status(job_id)

SpecMCP == InitMCP /\ [][NextMCP]_vars

\* the event loop runs every task it has scheduled
SpecMCPFair ==
    /\ SpecMCP
    /\ \A job_id \in JobIds :
          WF_vars(\E batch \in AnalyzeBatchOutcomes : _run_job(job_id, batch))

(***************************************************************************)
(* Properties of the pipeline run (Spec)                                   *)
(***************************************************************************)
\* the order of execution: stages 1..7 (units and hub), then FinalizeDecision,
\* then the final Consolidate
PhaseNodes(k) ==
    IF k \in StageIds THEN Stages[k].nodes \cup {StageHub(k)}
    ELSE IF k = Len(Stages) + 1 THEN {"FinalizeDecision"}
    ELSE {"Consolidate"}

PhaseIds == 1..(Len(Stages) + 2)

Active(n) == n \in triggered \/ status[n] # "idle"

Completed(n) == n \in committed /\ ~Active(n)

\* C1: a node of a later stage (or FinalizeDecision, or the final Consolidate)
\* has started only if every unit and the hub of every earlier stage have
\* completed, their updates merged into the state
C1_StageOrder ==
    \A j, k \in PhaseIds :
        j < k => \A u \in PhaseNodes(k) : u \in started => \A v \in PhaseNodes(j) : Completed(v)

C1_Witness ==
    /\ status["technical"] = "running"
    /\ status["flow"] = "idle"
    /\ "EvidenceHub" \in committed

Canonical == <<data_sources, analyses, decision, token_usage>>

\* C3: a step that changes data_sources, analyses, decision or token_usage
\* merges the update of a consolidation node or of FinalizeDecision only, and
\* is taken when no node is executing
C3_CanonicalWriters ==
    [][Canonical' # Canonical =>
          /\ triggered \subseteq ConsolidationNodes \cup {"FinalizeDecision"}
          /\ \A n \in Nodes : status[n] # "running"]_vars

C3_Witness ==
    /\ "ConsensusHub" \in committed
    /\ "TechnicalAnalyst" \in DOMAIN analyses
    /\ status["RiskManager"] = "running"

\* C4: a unit that raised does not abort the run, and notes has an entry
\* that names the unit
C4_FailureSubstituted ==
    \A n \in UnitNodes :
        status[n] = "failed" => pc # "aborted" /\ \E i \in DOMAIN notes : notes[i] = n

DecisionFields == {"ticker", "stance", "decision", "rationale", "confidence"}

\* C5: a run that has ended holds a decision with the five required fields
C5_RunEndsWithDecision ==
    pc \in {"done", "aborted"} => DecisionFields \subseteq DOMAIN decision

\* C8: after the final Consolidate, token_usage is the sum of the usage of
\* every persona Result returned in the run
C8_UsageCountedOnce ==
    pc = "done" =>
        /\ token_usage.prompt = produced.prompt
        /\ token_usage.completion = produced.completion

(***************************************************************************)
(* Properties of finalize_decision (SpecFinalize)                          *)
(***************************************************************************)
Precedence == <<"RiskJudge", "Trader", "ResearchReferee">>

\* the Result the synthesizer has for a governance name
Available(name) ==
    IF name \in DOMAIN analyses THEN analyses[name]
    ELSE IF AKey(name) \in DOMAIN slots THEN slots[AKey(name)]
    ELSE EmptyMap

IsFirstNonEmpty(i) ==
    /\ NonEmpty(Available(Precedence[i]))
    /\ \A j \in 1..(i - 1) : ~NonEmpty(Available(Precedence[j]))

\* C6: the decision names the first non-empty Result in the order RiskJudge,
\* Trader, ResearchReferee and takes its stance, action and rationale from it
C6_SourcePrecedence ==
    pc = "out" =>
        \A i \in 1..Len(Precedence) :
            IsFirstNonEmpty(i) =>
                LET src == Available(Precedence[i])
                IN  /\ decision.source_persona = Precedence[i]
                    /\ decision.stance = Get(src, "stance", "neutral")
                    /\ (TruthyText(src, "final_action") => decision.decision = src["final_action"])
                    /\ ("final_action" \notin DOMAIN src /\ "decision" \in DOMAIN src
                           => decision.decision = src["decision"])
                    /\ (TruthyText(src, "rationale") => decision.rationale = src["rationale"])

\* the scenario of the specification: RiskJudge empty, Trader buy/bull/momentum
C6_Witness ==
    /\ pc = "out"
    /\ analyses = [RiskJudge |-> EmptyMap, Trader |-> TraderExample]
    /\ AKey("RiskJudge") \notin DOMAIN slots
    /\ decision.decision = "buy"
    /\ decision.stance = "bull"
    /\ decision.rationale = "momentum"
    /\ decision.source_persona = "Trader"

\* C29: the unit named by source_persona supplied a non-empty Result, and the
\* decision's stance, decision and rationale are taken from that Result
C29_SourceSupplied ==
    pc = "out" =>
        LET src == Available(decision.source_persona)
        IN  /\ NonEmpty(src)
            /\ decision.stance = Get(src, "stance", "neutral")
            /\ decision.decision =
                  IF TruthyText(src, "final_action") THEN src["final_action"]
                  ELSE Get(src, "decision", "hold")
            /\ decision.rationale =
                  IF TruthyText(src, "rationale") THEN src["rationale"]
                  ELSE Get(src, "summary", "")

\* the source: the first non-empty Result, or the empty Result
TheSource ==
    IF \E i \in 1..Len(Precedence) : IsFirstNonEmpty(i)
    THEN Available(Precedence[CHOOSE i \in 1..Len(Precedence) : IsFirstNonEmpty(i)])
    ELSE EmptyMap

\* "a else b else default", a value counting when its key is present
ElsePresent(m, a, b, default) ==
    IF a \in DOMAIN m THEN m[a] ELSE IF b \in DOMAIN m THEN m[b] ELSE default

\* "a else b else default", a text counting when it is present and not empty
ElseNonEmpty(m, a, b, default) ==
    IF TruthyText(m, a) THEN m[a] ELSE IF TruthyText(m, b) THEN m[b] ELSE default

ConfidenceOf(src) ==
    Get(src, "confidence", Get(Available("ResearchReferee"), "confidence", 0))

\* C7 as stated: every field follows its "else" chain, read in one and the
\* same way for all fields (a value counts when present, or a value counts
\* when non-empty)
C7_DefaultsAsStated ==
    pc = "out" =>
        LET src == TheSource
        IN  /\ decision.ticker = ticker
            /\ decision.confidence = ConfidenceOf(src)
            /\ \/ /\ decision.stance = ElsePresent(src, "stance", "stance", "neutral")
                  /\ decision.decision = ElsePresent(src, "final_action", "decision", "hold")
                  /\ decision.rationale = ElsePresent(src, "rationale", "summary", "")
               \/ /\ decision.stance = ElseNonEmpty(src, "stance", "stance", "neutral")
                  /\ decision.decision = ElseNonEmpty(src, "final_action", "decision", "hold")
                  /\ decision.rationale = ElseNonEmpty(src, "rationale", "summary", "")

\* C7 amended: stance is source.stance whenever the key is present; the action
\* is final_action when present and not empty, else decision whenever that
\* key is present, else "hold"; the rationale is rationale when present and
\* not empty, else summary whenever that key is present, else ""; confidence
\* is source.confidence, else the referee's, else 0, by presence of the key
C7_DefaultsAmended ==
    pc = "out" =>
        LET src == TheSource
        IN  /\ DOMAIN decision = DecisionFields \cup {"source_persona"}
            /\ decision.ticker = ticker
            /\ decision.confidence = ConfidenceOf(src)
            /\ decision.stance = Get(src, "stance", "neutral")
            /\ decision.decision =
                  IF "final_action" \in DOMAIN src /\ src["final_action"] # ""
                  THEN src["final_action"] ELSE Get(src, "decision", "hold")
            /\ decision.rationale =
                  IF "rationale" \in DOMAIN src /\ src["rationale"] # ""
                  THEN src["rationale"] ELSE Get(src, "summary", "")

\* an oversight Result with an empty final_action and an empty stance
C7_Witness ==
    /\ pc = "out"
    /\ "RiskJudge" \in DOMAIN analyses
    /\ analyses["RiskJudge"] = [stance |-> "", final_action |-> "", decision |-> "buy"]
    /\ decision.stance = ""
    /\ decision.decision = "buy"
    /\ decision.rationale = ""

(***************************************************************************)
(* Properties of consolidate_state (SpecConsolidate)                       *)
(***************************************************************************)
\* the canonical fields after state.update(r)
CanonicalAfter(r) ==
    <<Get(r, CKey("data_sources"), data_sources),
      Get(r, CKey("analyses"), analyses),
      Get(r, CKey("token_usage"), token_usage)>>

\* C9: the canonical fields after a consolidation are the same for every
\* order in which the transient keys may have been written
C9_OrderIndependent ==
    [][applications' = applications + 1 =>
          \A o \in Perms(DOMAIN slots) :
              <<data_sources', analyses', token_usage'>>
                  = CanonicalAfter(consolidate_state(slots, o, token_usage))]_vars

C9_Witness ==
    /\ applications = 1
    /\ Len(keyOrder) = 4
    /\ keyOrder[1] = AKey("MacroAnalyst")
    /\ keyOrder[4] = AKey("TechnicalAnalyst")
    /\ "usage" \in DOMAIN slots[AKey("MacroAnalyst")]
    /\ "usage" \in DOMAIN slots[AKey("TechnicalAnalyst")]
    /\ slots[AKey("MacroAnalyst")].usage.prompt_tokens > 0
    /\ slots[AKey("TechnicalAnalyst")].usage.prompt_tokens = 0
    /\ DOMAIN analyses = {"MacroAnalyst", "TechnicalAnalyst"}

\* C10: a second application of consolidate_state to the state left by the
\* first leaves data_sources, analyses and token_usage as they were
C10_Idempotent ==
    [][applications = 1 /\ applications' = 2 =>
          <<data_sources', analyses', token_usage'>> = <<data_sources, analyses, token_usage>>]_vars

(***************************************************************************)
(* Transient slots during the run (Spec)                                   *)
(***************************************************************************)
\* the key under which a unit returns its output
SlotKey(n) == IF n \in MapperNodes THEN MKey(MapperType(n)) ELSE AKey(PersonaName(n))

\* C11: once the hub of a stage has consolidated, the transient slot of every
\* unit of that stage is cleared: it is gone from the state or holds nothing
C11_ConsumedSlotsCleared ==
    \A i \in StageIds :
        StageHub(i) \in committed =>
            \A u \in Stages[i].nodes :
                SlotKey(u) \in DOMAIN slots => ~NonEmpty(slots[SlotKey(u)])

\* C12: while a unit of a later stage executes, data_sources has an entry for
\* the evidence type of every mapper and analyses holds a Result under the
\* name of every persona of every earlier stage
C12_EarlierResultsVisible ==
    \A j, k \in StageIds :
        j < k =>
            \A u \in Stages[k].nodes :
                status[u] = "running" =>
                    \A v \in Stages[j].nodes :
                        IF v \in MapperNodes
                        THEN MapperType(v) \in DOMAIN data_sources
                        ELSE /\ PersonaName(v) \in DOMAIN analyses
                             /\ NonEmpty(analyses[PersonaName(v)])

\* C16: in a run that completes, the oversight unit has returned a non-empty
\* Result, and the decision names that unit (by its node or by its persona
\* name) as source_persona and takes stance and rationale from its Result
C16_OversightIsSource ==
    pc = "done" =>
        LET oversight == slots[SlotKey("RiskJudge")]
        IN  /\ NonEmpty(oversight)
            /\ decision.source_persona \in {"RiskJudge", PersonaName("RiskJudge")}
            /\ decision.stance = oversight.stance
            /\ decision.rationale = oversight.summary

\* C19: the step in which a mapper or persona returns yields a map whose only
\* key is the unit's own slot (m__<type> for a mapper, a__<name> for a
\* persona) and changes no field and no slot of the state
C19_UnitFrame ==
    [][\A n \in UnitNodes :
          status[n] = "running" /\ status'[n] = "done" =>
              /\ DOMAIN writes'[n] = {SlotKey(n)}
              /\ UNCHANGED StateVars]_vars

C19_Witness ==
    /\ status["RiskJudge"] = "done"
    /\ DOMAIN writes["RiskJudge"] = {AKey("FinalOversight")}
    /\ "ExecutionPlan" \in DOMAIN analyses
    /\ NonEmpty(analyses["ExecutionPlan"])
    /\ slots[AKey("FinalOversight")] = EmptyMap

\* the canonical fields a Consolidation Step may write
ConsolidationKeys == {CKey("data_sources"), CKey("analyses"), CKey("token_usage")}

\* C28: a Consolidation Step returns a map with no key other than data_sources,
\* analyses and token_usage, the Decision Synthesizer a map whose only key is
\* decision, and the merge of a consolidation (the final one included) leaves
\* decision, notes, the slots and the inputs of the run unchanged.
C28_ConsolidationFrame ==
    [][/\ \A n \in ConsolidationNodes :
              status[n] = "running" /\ status'[n] = "done" =>
                  /\ DOMAIN writes'[n] \subseteq ConsolidationKeys
                  /\ UNCHANGED StateVars
       /\ (status["FinalizeDecision"] = "running" /\ status'["FinalizeDecision"] = "done")
              => /\ DOMAIN writes'["FinalizeDecision"] = {CKey("decision")}
                 /\ UNCHANGED StateVars
       /\ (triggered # {} /\ triggered \subseteq ConsolidationNodes /\ triggered \subseteq committed')
              => UNCHANGED <<decision, notes, slots, ticker, as_of_date, time_horizon>>
       /\ ("FinalizeDecision" \in triggered /\ "FinalizeDecision" \in committed')
              => UNCHANGED <<data_sources, analyses, token_usage, notes, slots, ticker,
                             as_of_date, time_horizon>>]_vars

\* the final Consolidate has been merged after the Synthesizer's decision
C28_Witness ==
    /\ pc = "done"
    /\ {"FinalizeDecision", "Consolidate"} \subseteq committed
    /\ decision # EmptyMap
    /\ NonEmpty(analyses)
    /\ NonEmpty(data_sources)
    /\ token_usage.completion > 0

\* C22: no step of a run lowers token_usage.prompt or token_usage.completion
C22_UsageMonotone ==
    [][/\ token_usage'.prompt >= token_usage.prompt
       /\ token_usage'.completion >= token_usage.completion]_vars

\* the analysts' usage has been added and the debate stage is executing
C22_Witness ==
    /\ "AnalystHub" \in committed
    /\ status["BullResearcher"] = "running"
    /\ token_usage.prompt > 0
    /\ token_usage.completion > token_usage.prompt

(***************************************************************************)
(* What consolidate_state stores (SpecConsolidate)                         *)
(***************************************************************************)
\* C13: after a consolidation, analyses holds under the name of every a__ key
\* of the state exactly the Result of that key, also when two keys hold
\* identical Results
C13_NoResultLost ==
    pc = "out" =>
        \A k \in DOMAIN slots :
            k[1] = "a" => k[2] \in DOMAIN analyses /\ analyses[k[2]] = slots[k]

C13_Witness ==
    /\ pc = "out"
    /\ AKey("TechnicalAnalyst") \in DOMAIN slots
    /\ AKey("MacroAnalyst") \in DOMAIN slots
    /\ slots[AKey("TechnicalAnalyst")] = [stance |-> "neutral"]
    /\ slots[AKey("MacroAnalyst")] = [stance |-> "neutral"]
    /\ analyses = [TechnicalAnalyst |-> [stance |-> "neutral"],
                   MacroAnalyst |-> [stance |-> "neutral"]]

\* C14: after a consolidation of a state to which the evidence stage gave
\* market = [e1, e2] and fundamentals = [e3] and no other evidence,
\* data_sources is the map {market: [e1, e2], fundamentals: [e3]}, with no
\* other key, whatever it held before
C14_DataSourcesExact ==
    (/\ pc = "out"
     /\ slots[MKey("market")] = <<"e1", "e2">>
     /\ slots[MKey("fundamentals")] = <<"e3">>
     /\ \A k \in DOMAIN slots :
           IsMapperKey(k) /\ Suffix(k) \notin {"market", "fundamentals"} => slots[k] = << >>)
        => data_sources = [market |-> <<"e1", "e2">>, fundamentals |-> <<"e3">>]

(***************************************************************************)
(* What finalize_decision reads (SpecFinalize)                             *)
(***************************************************************************)
\* the transient keys another state with the same ticker and analyses may hold
OtherSlots == {Update([k \in DeclaredSlots |-> SlotDefault(k)], extra) : extra \in ExtraSlotChoices}

\* C15: the decision depends on ticker and analyses only: a state with the
\* same ticker and the same analyses and any other transient slots yields
\* the same decision
C15_DecisionFromAnalysesOnly ==
    pc = "out" => \A sl \in OtherSlots : finalize_decision(ticker, analyses, sl) = decision

(***************************************************************************)
(* Properties of SimpleGraph (SpecSimpleGraph)                             *)
(***************************************************************************)
\* C17: a unit registered under a name is never replaced: no step changes
\* the Node object the graph holds for a name it already holds
C17_DuplicateRejected ==
    [][\A n \in DOMAIN graph_nodes : graph_nodes'[n] = graph_nodes[n]]_vars

\* the Node objects in the downstream list of a
NextOf(a) == {node_next[a][i] : i \in DOMAIN node_next[a]}

RECURSIVE Closure(_, _)
Closure(S, n) == IF n = 0 THEN S ELSE Closure(S \cup UNION {NextOf(x) : x \in S}, n - 1)

\* the Node objects reachable from a by one or more edges
ReachableFrom(a) == Closure(NextOf(a), Len(node_name))

HasCycle == \E a \in DOMAIN node_name : a \in ReachableFrom(a)

\* C18: no func of a graph whose edges contain a cycle is ever called
C18_CycleRejected == HasCycle => executed = << >>

EntryNodes == {entrypoints[i] : i \in DOMAIN entrypoints}

\* the units of n's stage: the Node objects that share an upstream Node with
\* n, or that are entrypoints as n is
Siblings(n) ==
    {m \in DOMAIN node_name \ {n} :
        \/ \E p \in DOMAIN node_name : {m, n} \subseteq NextOf(p)
        \/ {m, n} \subseteq EntryNodes}

\* C21: the state handed to a node's func holds no output of a sibling of
\* the same stage (a sibling with another name that is not upstream of it)
C21_SiblingOutputHidden ==
    [][executed' # executed =>
          LET n == Head(frontier)
          IN  \A m \in Siblings(n) :
                  node_name[m] # node_name[n] /\ n \notin ReachableFrom(m)
                      => AKey(node_name[m]) \notin DOMAIN slots]_vars

\* the Node objects reachable from the entrypoints, the entrypoints included
ReachableNodes == EntryNodes \cup UNION {ReachableFrom(e) : e \in EntryNodes}

\* how often run has called the func of Node object n
TimesExecuted(n) == Cardinality({i \in DOMAIN executed : executed[i] = n})

RECURSIVE Level(_, _, _)
\* the least number of edges from an entrypoint to Node object n
Level(n, S, d) ==
    IF n \in S \/ d >= Len(node_name) THEN d
    ELSE Level(n, S \cup UNION {NextOf(x) : x \in S}, d + 1)

\* C30: when run has returned, the func of every Node object reachable from
\* the entrypoints has been called exactly once, no other func has been called,
\* and the calls were made in breadth-first order from the entrypoints
C30_ReachableExecutedOnce ==
    pc = "done" =>
        /\ \A n \in ReachableNodes : TimesExecuted(n) = 1
        /\ \A i \in DOMAIN executed : executed[i] \in ReachableNodes
        /\ \A i, j \in DOMAIN executed :
              i < j => Level(executed[i], EntryNodes, 0) <= Level(executed[j], EntryNodes, 0)

(***************************************************************************)
(* Properties of a persona's parsing (SpecPersona)                         *)
(***************************************************************************)
IsJsonObject(t) == json_loads(strip(t)).ok /\ json_loads(strip(t)).type = "object"

C23_InputsImmutable ==
    [][/\ ticker' = ticker
       /\ as_of_date' = as_of_date
       /\ time_horizon' = time_horizon]_vars

\* a finished run for MSFT, after the final consolidation has been merged
C23_Witness ==
    /\ pc = "done"
    /\ "Consolidate" \in committed
    /\ ticker = "MSFT"
    /\ as_of_date = "2025-11-11"
    /\ time_horizon = "medium"
    /\ decision # EmptyMap

(***************************************************************************)
(* Properties of an evidence-gathering unit (SpecEvidence)                 *)
(***************************************************************************)
\* the evidence source failed or gave nothing: the credential is missing, a
\* request raised, or a request was answered without usable data
SourceFailed ==
    \/ ~api_key
    \/ \E i \in DOMAIN fetched : fetched[i] # "data"

\* C24: when the evidence source fails (exception, missing credential, rate
\* limit) or returns nothing, the unit still returns its m__<type> slot and no
\* exception leaves the unit.
C24_SourceFailureContained ==
    (pc = "done" /\ IsIsoDate(as_of_date) /\ SourceFailed)
        => /\ outcome = "returned"
           /\ MKey(MapperType(adapter)) \in DOMAIN result

\* the outermost _call of the current request ends in this step
CallEnded == pc = "request" /\ fetched' # fetched

\* what a fetch records for a call that ended in RecursionError or a failed request
Failure == IF adapter = "FundamentalsMapper" THEN "raised" ELSE "empty"

\* C27 as stated: _call retries on every rate-limit response without any cap, so
\* it ends only on a response without a rate-limit note.
C27_ReturnsOnlyWithoutNote ==
    [][CallEnded => response' # "note"]_vars

\* C27 amended: _call sleeps and retries on every rate-limit response while its
\* nesting is below the recursion limit; it ends on a response without a note, or
\* on the note received at the recursion limit, which the fetch records as a failure.
C27_RetriesUpToRecursionLimit ==
    [][pc = "request" =>
          /\ (response' = "note" /\ depth < RecursionLimit)
                => (depth' = depth + 1 /\ pc' = "request" /\ fetched' = fetched)
          /\ (response' = "note" /\ depth = RecursionLimit)
                => fetched' = Append(fetched, Failure)
          /\ CallEnded => (response' # "note" \/ depth = RecursionLimit)]_vars

\* under rate-limiting up to the recursion limit the fundamentals unit has
\* returned its slot with the mock records
C27_Witness ==
    /\ pc = "done"
    /\ adapter = "FundamentalsMapper"
    /\ response = "note"
    /\ fetched = <<"raised">>
    /\ outcome = "returned"
    /\ result = Put(EmptyMap, MKey("fundamentals"), _mock_ratios \o _mock_trend)

(***************************************************************************)
(* Properties of LLMService.complete (SpecComplete)                        *)
(***************************************************************************)
\* the reasoning service was unavailable: no key, or the request failed
Degraded == ~api_key \/ response \in RequestExceptions

\* C25: a call of complete with the reasoning service unavailable returns, without
\* raising, a placeholder text and a usage whose prompt_tokens and
\* completion_tokens are both zero.
C25_DegradedUsageZero ==
    (pc = "done" /\ Degraded)
        => /\ outcome = "returned"
           /\ result.tag \notin {"content"}
           /\ llm_usage.prompt_tokens = 0
           /\ llm_usage.completion_tokens = 0

(***************************************************************************)
(* Properties of the cache (SpecCache)                                     *)
(***************************************************************************)
\* this step is a load_from_cache call
IsLookup == outcome' \in {"absent", "hit"} /\ clock' = clock

\* the entry the lookup of this step is for, and its age
HasEntry == cache_enabled /\ cache_key' \in DOMAIN cache
Age == clock - cache[cache_key'].timestamp

\* C26: a lookup for an entry older than the TTL reports it absent and removes
\* it, a lookup without an entry reports it absent, and a lookup for an entry
\* not older than the TTL returns exactly the value that was put.
C26_ExpiryAndExactValue ==
    [][IsLookup =>
          /\ (HasEntry /\ Age > ttl_sec)
                => (outcome' = "absent" /\ cache_key' \notin DOMAIN cache')
          /\ ~HasEntry => outcome' = "absent"
          /\ (HasEntry /\ Age <= ttl_sec)
                => (outcome' = "hit" /\ result' = put_data[cache_key'])]_vars

(***************************************************************************)
(* Properties of OrchestratorService.analyze_single (SpecOrchestrator)     *)
(***************************************************************************)
\* C31: analyze_single returns and does not raise; after a pipeline failure its
\* result has status "error" and the ticker and no decision, otherwise status
\* "ok" with the decision, analyses and data_sources of the final state
C31_FailureReported ==
    [][pc' = "reported" =>
          /\ outcome' = "returned"
          /\ pc = "aborted" =>
                /\ result'.status = "error"
                /\ result'.ticker = ticker
                /\ "decision" \notin DOMAIN result'
          /\ pc = "done" =>
                /\ result'.status = "ok"
                /\ result'.ticker = ticker
                /\ result'.decision = decision
                /\ result'.analyses = analyses
                /\ result'.data_sources = data_sources]_vars

\* a unit raised during the run of MSFT and analyze_single has returned
C31_Witness ==
    /\ pc = "reported"
    /\ \E n \in UnitNodes : status[n] = "failed"
    /\ outcome = "returned"
    /\ result.status = "error"
    /\ result.ticker = "MSFT"

(***************************************************************************)
(* Properties of cached_call (SpecCachedCall)                              *)
(***************************************************************************)
\* this step is a call of cached_call
IsCachedCall == outcome' \in {"returned_cached", "returned_fetched", "raised"} /\ clock' = clock

\* C32: with the cache enabled, a call that finds a non-expired entry returns
\* it without invoking the fetch function; a call that finds none invokes the
\* fetch function exactly once and returns its result, also when the store
\* fails; and when the store succeeds the entry is non-expired afterwards, so
\* that the next call within the TTL finds it.
C32_ReadThrough ==
    [][(IsCachedCall /\ cache_enabled) =>
          /\ Fresh(cache_key') =>
                /\ fetched' = << >>
                /\ outcome' = "returned_cached"
                /\ result' = json_loads_document(cache[cache_key'].data)
          /\ ~Fresh(cache_key') =>
                /\ Len(fetched') = 1
                /\ fetched'[1] \in FetchResults =>
                      /\ outcome' = "returned_fetched"
                      /\ result' = fetched'[1]
                /\ response' = "stored" =>
                      /\ cache_key' \in DOMAIN cache'
                      /\ cache'[cache_key'].timestamp = clock
                      /\ cache'[cache_key'].data = json_dumps(fetched'[1])]_vars

(***************************************************************************)
(* Properties of FastMCP jobs (SpecMCPFair)                                *)
(***************************************************************************)
Running(job_id) == job_id \in DOMAIN jobs /\ jobs[job_id].status = "running"

\* one step of a job: it is created running, and it changes only while it is
\* running, to completed with results and finished_at or to error with a message
JobStep(job_id) ==
    /\ job_id \in DOMAIN jobs => job_id \in DOMAIN jobs'
    /\ (job_id \in DOMAIN jobs' /\ job_id \notin DOMAIN jobs) => jobs'[job_id].status = "running"
    /\ (job_id \in DOMAIN jobs /\ ~Running(job_id)) => jobs'[job_id] = jobs[job_id]
    /\ (Running(job_id) /\ jobs'[job_id] # jobs[job_id]) =>
          \/ /\ jobs'[job_id].status = "completed"
             /\ {"results", "finished_at"} \subseteq DOMAIN jobs'[job_id]
          \/ /\ jobs'[job_id].status = "error"
             /\ "error" \in DOMAIN jobs'[job_id]

\* C33: a job starts as "running", changes at most once, to "completed" (with
\* results and finished_at) or to "error" (with an error message), and never
\* changes after that; get_job_status answers "not_found" for an id that was
\* never submitted; every submitted job eventually leaves "running".
C33_JobLifecycle ==
    /\ [][\A job_id \in JobIds : JobStep(job_id)]_vars
    /\ []((job_query # 0 /\ job_query \notin DOMAIN jobs) => result.status = "not_found")
    /\ \A job_id \in JobIds : Running(job_id) ~> ~Running(job_id)

\* job 1 has failed with a message, job 2 is still running, and a caller has
\* asked about an id that was never submitted
C33_Witness ==
    /\ DOMAIN jobs = {1, 2}
    /\ jobs[1].status = "error"
    /\ "error" \in DOMAIN jobs[1]
    /\ Running(2)
    /\ 2 \in tasks
    /\ job_query = 3
    /\ result.status = "not_found"

====
